---- MODULE Spec2Model ----
(***************************************************************************)
(* Model of the rivermap osmium tools.                                     *)
(*                                                                         *)
(*  - osmium_waterway_ids in its two variants: the one that reads its      *)
(*    tag filter from a rules file ("rules_file") and the one with the     *)
(*    hard-coded filter ("builtin"); specification Spec.                   *)
(*  - RiversystemMap (load / insert / getName) of osmium_rivermap;         *)
(*    specification SpecLoad.                                              *)
(*                                                                         *)
(* libosmium (TagsFilter, MultipolygonManager, Assembler, Reader) is an    *)
(* external library: its documented behaviour is written down where the    *)
(* tools call it.                                                          *)
(***************************************************************************)
EXTENDS Integers, Sequences, FiniteSets, TLC

VARIABLES
    variant,      \* which osmium_waterway_ids: "rules_file" or "builtin"
    argc,         \* main's argc
    pc,           \* position of main
    rulesFile,    \* the tags-filter file: whether it opens, and its lines
    linePos,      \* lines of rulesFile consumed by std::getline
    m_filter,     \* osmium::TagsFilter: the ordered rules (default result false)
    created,      \* output files that exist on disk
    waystream,    \* lines inserted into the stream of the way file
    areastream,   \* lines inserted into the stream of the area file
    areasrc,      \* for each line of areastream, the object it was written for
    input,        \* the OSM input: ways, then relations (file order)
    pos,          \* objects consumed by the current pass
    mp_relations, \* ids of the relations the multipolygon manager kept in pass 1
    area_buffer,  \* areas assembled and not yet handed to the callback
    exitCode,     \* process exit status, -1 while running
    fs,           \* environment: the paths that can be opened ("input") or created
    opened,       \* the files opened so far, in order: role and index in argv
    parsed,       \* the expressions handed to parse_and_add_expression, in order
    stderr,       \* the messages written to std::cerr, in order
    file,         \* the river-system csv: whether it opens, its characters, its data lines
    fpos,         \* characters of file consumed by the stream
    ios,          \* stream state bits of ifs: set of "eof", "fail", "bad"
    lpc,          \* position of RiversystemMap::load
    id,           \* load's local `long id`
    name,         \* load's local `std::string name`
    m_names,      \* std::set<std::string> m_names
    m_id2Name,    \* std::map<long, const char*> m_id2Name
    idFailed,     \* an extraction of id has failed on a non-integer field
    query,        \* the id last passed to getName, 0 - 1 before any call
    answer,       \* the value getName returned for it
    gpc,          \* position of osmium_rivermap's main
    opt,          \* how its getopt_long loop ends: "run", "help", "list" or "bad"
    remaining_args, \* argc - optind
    rsystems_file,  \* whether -r gave a non-empty file name
    features      \* the features added to the layer "waterways"

csvVars == <<variant, argc, pc, rulesFile, linePos, m_filter, created, waystream,
             areastream, areasrc, input, pos, mp_relations, area_buffer, exitCode,
             fs, opened, parsed, stderr>>
mapVars == <<file, fpos, ios, lpc, id, name, m_names, m_id2Name, idFailed, query, answer>>
gisVars == <<gpc, opt, remaining_args, rsystems_file, features>>
vars == <<csvVars, mapVars, gisVars>>

----------------------------------------------------------------------------
(* Bounds of the model *)

\* ways in an input
MaxWays == 2
\* relations in an input
MaxRels == 1

----------------------------------------------------------------------------
(* Strings *)

RECURSIVE Join(_)
\* the std::string made of the characters s
Join(s) == IF s = <<>> THEN "" ELSE Head(s) \o Join(Tail(s))

Range(s) == {s[i] : i \in DOMAIN s}

\* std::string::find_first_of(c): the first index of c in s, 0 for npos
FindFirstOf(s, c) ==
    IF \E i \in DOMAIN s : s[i] = c
    THEN CHOOSE i \in DOMAIN s : s[i] = c /\ \A j \in 1..(i - 1) : s[j] # c
    ELSE 0

----------------------------------------------------------------------------
(* Tags and the tags filter *)

\* a tag list: a function from its keys to their values
NoTags == [k \in {} |-> ""]

TagRule(result, key, any, value) ==
    [result |-> result, key |-> key, any |-> any, value |-> value]

\* osmium::TagsFilter::add_rule(result, matcher)
add_rule(filter, rule) == Append(filter, rule)

\* osmium::TagMatcher applied to one tag
RuleMatchesTag(rule, k, v) == rule.key = k /\ (rule.any \/ rule.value = v)

RECURSIVE FilterTag(_, _, _)
\* osmium::TagsFilter applied to one tag: the result of the first rule that
\* matches it, the default (false) when none does
FilterTag(filter, k, v) ==
    IF filter = <<>> THEN FALSE
    ELSE IF RuleMatchesTag(Head(filter), k, v) THEN Head(filter).result
    ELSE FilterTag(Tail(filter), k, v)

match_all_of(tags, filter) ==
    \A k \in DOMAIN tags : FilterTag(filter, k, tags[k])

\* osmium::tags::match_any_of(tags, m_filter)
match_any_of(tags, filter) ==
    \E k \in DOMAIN tags : FilterTag(filter, k, tags[k])

\* the filter of the builtin variant
BuiltinFilter ==
    << TagRule(TRUE, "natural", FALSE, "water"),
       TagRule(TRUE, "natural", FALSE, "coastline"),
       TagRule(TRUE, "landuse", FALSE, "reservoir"),
       TagRule(TRUE, "landuse", FALSE, "basin"),
       TagRule(TRUE, "waterway", FALSE, "stream"),
       TagRule(TRUE, "waterway", FALSE, "river"),
       TagRule(TRUE, "waterway", FALSE, "ditch"),
       TagRule(TRUE, "waterway", FALSE, "canal"),
       TagRule(TRUE, "waterway", FALSE, "drain"),
       TagRule(TRUE, "waterway", FALSE, "weir"),
       TagRule(TRUE, "waterway", FALSE, "dam"),
       TagRule(TRUE, "waterway", FALSE, "waterfall"),
       TagRule(TRUE, "waterway", FALSE, "fish_pass") >>

----------------------------------------------------------------------------
(* The rules file *)

\* get_filter_expression / get_tag_matcher: the grammar [!]key[=value]
ParseExpression(line) ==
    LET excl == line # <<>> /\ Head(line) = "!"
        body == IF excl THEN Tail(line) ELSE line
        eq   == FindFirstOf(body, "=")
        keyc == IF eq = 0 THEN body ELSE SubSeq(body, 1, eq - 1)
        valc == IF eq = 0 THEN <<>> ELSE SubSeq(body, eq + 1, Len(body))
    IN  [ok |-> keyc # <<>>, exclude |-> excl, key |-> Join(keyc),
         any |-> eq = 0, value |-> Join(valc)]

\* the line as read_expressions_file hands it to parse_and_add_expression:
\* erased from the first '#', and, when not empty, without a final '\r'
StripLine(line) ==
    LET p  == FindFirstOf(line, "#")
        l1 == IF p # 0 THEN SubSeq(line, 1, p - 1) ELSE line
    IN  IF l1 # <<>> /\ l1[Len(l1)] = "\r" THEN SubSeq(l1, 1, Len(l1) - 1) ELSE l1

\* whether read_expressions_file calls parse_and_add_expression for the line
LineIsParsed(line) ==
    LET p  == FindFirstOf(line, "#")
        l1 == IF p # 0 THEN SubSeq(line, 1, p - 1) ELSE line
    IN  l1 # <<>>

\* WaterHandler::parse_and_add_expression, on an expression that parses
parse_and_add_expression(filter, expression) ==
    LET p == ParseExpression(expression)
    IN  add_rule(filter, TagRule(TRUE, p.key, p.any, p.value))

L_waterway == <<"w","a","t","e","r","w","a","y">>
L_natural_water == <<"n","a","t","u","r","a","l","=","w","a","t","e","r">>
L_landuse_basin_cr == <<"l","a","n","d","u","s","e","=","b","a","s","i","n","\r">>
L_water == <<"w","a","t","e","r">>
L_comment == <<"#"," ","c">>
L_river_comment == <<"w","a","t","e","r","w","a","y","=","r","i","v","e","r","#","c">>
L_novalue == <<"=","x">>
L_not_natural_water == <<"!","n","a","t","u","r","a","l","=","w","a","t","e","r">>
L_cr == <<"\r">>

\* a file on disk: whether it can be opened, and its content
File(readable, content) == [readable |-> readable, content |-> content]

RulesFiles ==
    { File(FALSE, <<>>),
      File(TRUE, << L_waterway, L_natural_water >>),
      File(TRUE, << L_comment, <<>>, L_landuse_basin_cr, L_water, L_river_comment >>),
      File(TRUE, << L_natural_water, L_novalue, L_waterway >>),
      File(TRUE, << L_not_natural_water, L_waterway, L_cr, L_water >>) }

----------------------------------------------------------------------------
(* OSM objects *)

Way(i, tags, nodes) == [kind |-> "way", id |-> i, tags |-> tags, nodes |-> nodes,
                        members |-> {}, rings |-> <<>>]

\* a relation, with the rings the assembler builds from its member ways
Relation(i, tags, members, rings) ==
    [kind |-> "relation", id |-> i, tags |-> tags, nodes |-> <<>>,
     members |-> members, rings |-> rings]

Ring(role, nodes) == [role |-> role, nodes |-> nodes]

Ways ==
    { Way(7,  ("waterway" :> "river"), <<1, 2, 3>>),
      Way(8,  ("highway" :> "primary"), <<4, 5>>),
      Way(9,  ("natural" :> "water") @@ ("landuse" :> "basin"), <<1, 2, 3, 4, 1>>),
      Way(10, ("landuse" :> "reservoir"), <<5, 6, 7, 8, 5>>),
      Way(11, ("waterway" :> "riverbank") @@ ("natural" :> "water"), <<2, 3, 4, 2>>),
      Way(12, ("waterway" :> "dam"), <<6, 7, 8, 9, 6>>),
      Way(13, ("water" :> "lake"), <<3, 4, 5, 6, 3>>) }

Relations ==
    { Relation(20, ("type" :> "multipolygon") @@ ("natural" :> "water"), {8},
               << Ring("outer", <<1, 5, 9, 7>>), Ring("inner", <<2, 3, 4, 6>>) >>),
      Relation(21, ("type" :> "multipolygon") @@ ("landuse" :> "basin")
                   @@ ("waterway" :> "dock"), {8, 10},
               << Ring("outer", <<1, 5, 9, 1>>), Ring("inner", <<2, 3, 2>>),
                  Ring("outer", <<4, 5, 4>>) >>),
      Relation(22, ("type" :> "route") @@ ("waterway" :> "river"), {7}, <<>>),
      Relation(23, ("type" :> "multipolygon") @@ ("waterway" :> "dam"), {12},
               << Ring("outer", <<6, 7, 8, 9, 6>>) >>) }

\* the sequences without repetition of at most n elements of S
SeqsOf(S, n) ==
    { s \in UNION { [1..k -> S] : k \in 0..n } :
        \A i, j \in DOMAIN s : i # j => s[i] # s[j] }

RECURSIVE InIdOrder(_)
\* the objects of a set as a sequence, by increasing id
InIdOrder(S) ==
    IF S = {} THEN <<>>
    ELSE LET o == CHOOSE o \in S : \A p \in S : o.id <= p.id
         IN  <<o>> \o InIdOrder(S \ {o})

\* the inputs: at most MaxWays ways in any order, then at most MaxRels relations
Inputs ==
    { w \o InIdOrder(r) :
        w \in SeqsOf(Ways, MaxWays),
        r \in { R \in SUBSET Relations : Cardinality(R) <= MaxRels } }

----------------------------------------------------------------------------
(* Areas, as the multipolygon manager and the assembler deliver them *)

\* osmium::object_id_to_area_id: ways get even, relations odd area ids
object_id_to_area_id(i, kind) == IF kind = "relation" THEN 2 * i + 1 ELSE 2 * i

\* orig_id() confused with id(): the synthetic area id
orig_id_synthetic(area) == area.id

\* osmium::Area::orig_id()
orig_id(area) == area.id \div 2

Area(i, tags, rings) == [kind |-> "area", id |-> i, tags |-> tags, rings |-> rings]

\* the tags of a relation's area: the relation's tags without its type tag
TagsWithoutType(tags) == [k \in (DOMAIN tags) \ {"type"} |-> tags[k]]

\* Assembler on a closed way: one outer ring made of the way's nodes
AreaOfWay(way) ==
    Area(object_id_to_area_id(way.id, "way"), way.tags, << Ring("outer", way.nodes) >>)

\* Assembler on a completed relation
AreaOfRelation(rel) ==
    Area(object_id_to_area_id(rel.id, "relation"), TagsWithoutType(rel.tags), rel.rings)

\* outer_rings() that also yields the inner rings
all_rings(area) == area.rings

\* osmium::Area::outer_rings()
outer_rings(area) == SelectSeq(area.rings, LAMBDA r : r.role = "outer")

\* MultipolygonManager::new_relation: pass 1 keeps a relation that is a
\* multipolygon or boundary, matches the filter and has a way member
new_relation(rel, filter) ==
    /\ "type" \in DOMAIN rel.tags
    /\ rel.tags["type"] \in {"multipolygon", "boundary"}
    /\ match_any_of(rel.tags, filter)
    /\ rel.members # {}

\* the ids of the ways among the first n objects of the input
WaysSeen(inp, n) == { inp[i].id : i \in { j \in 1..n : inp[j].kind = "way" } }

\* the areas the manager's pass-2 handler adds to its buffer for the way at
\* position n: those of the kept relations this way completes, or, for a way
\* in no kept relation, the area of the closed way itself when it has more
\* than 3 nodes, is not tagged area=no and matches the filter
AreasAfterWay(inp, n, kept, filter) ==
    LET way  == inp[n]
        rels == SelectSeq(inp, LAMBDA o : o.kind = "relation" /\ o.id \in kept
                                          /\ way.id \in o.members)
        done == SelectSeq(rels, LAMBDA r : r.members \subseteq WaysSeen(inp, n)
                                           /\ outer_rings(AreaOfRelation(r)) # <<>>)
    IN  IF rels # <<>>
        THEN [i \in 1..Len(done) |-> AreaOfRelation(done[i])]
        ELSE IF /\ Len(way.nodes) > 3
                /\ way.nodes[1] = way.nodes[Len(way.nodes)]
                /\ ~("area" \in DOMAIN way.tags /\ way.tags["area"] = "no")
                /\ match_any_of(way.tags, filter)
             THEN << AreaOfWay(way) >>
             ELSE <<>>

----------------------------------------------------------------------------
(* WaterHandler *)

has_key(tags, key) == key \in DOMAIN tags

RECURSIVE NodeRefs(_)
\* the loop `out << "," << nr.ref()` over a node list
NodeRefs(nodes) ==
    IF nodes = <<>> THEN ""
    ELSE "," \o ToString(Head(nodes)) \o NodeRefs(Tail(nodes))

RECURSIVE RingRefs(_)
\* the loops of output_area over the given rings and their nodes
RingRefs(rings) ==
    IF rings = <<>> THEN ""
    ELSE NodeRefs(Head(rings).nodes) \o RingRefs(Tail(rings))

\* the two streams of the handler, with the object each area line is for
Sinks(w, a, src) == [way |-> w, area |-> a, src |-> src]

RECURSIVE NodeRefsReversed(_)
NodeRefsReversed(nodes) ==
    IF nodes = <<>> THEN ""
    ELSE NodeRefsReversed(Tail(nodes)) \o "," \o ToString(Head(nodes))

\* output_waterway walking the node list backwards
output_waterway_reversed(way, tag_key, out) ==
    IF tag_key \in DOMAIN way.tags
    THEN Append(out, ToString(way.id) \o "," \o way.tags[tag_key]
                     \o NodeRefsReversed(way.nodes))
    ELSE out

\* output_waterway putting the line before the lines already written
output_waterway_in_front(way, tag_key, out) ==
    IF has_key(way.tags, tag_key)
    THEN <<ToString(way.id) \o "," \o way.tags[tag_key] \o NodeRefs(way.nodes)>> \o out
    ELSE out

\* WaterHandler::output_waterway: the lines of `out` after the call
output_waterway(way, tag_key, out) ==
    IF has_key(way.tags, tag_key)
    THEN Append(out, ToString(way.id) \o "," \o way.tags[tag_key] \o NodeRefs(way.nodes))
    ELSE out

\* WaterHandler::output_area: the lines of `out` after the call
output_area(area, tag_key, out) ==
    IF has_key(area.tags, tag_key)
    THEN Append(out, ToString(orig_id(area)) \o "," \o area.tags[tag_key]
                     \o RingRefs(outer_rings(area)))
    ELSE out

\* WaterHandler::way with the natural branch tested before the waterway branch
way_handler_natural_first(s, way, filter) ==
    IF match_any_of(way.tags, filter)
    THEN IF has_key(way.tags, "natural")
         THEN [s EXCEPT !.area = output_waterway(way, "natural", @),
                        !.src = Append(@, way)]
         ELSE IF has_key(way.tags, "waterway")
         THEN [s EXCEPT !.way = output_waterway(way, "waterway", @)]
         ELSE IF has_key(way.tags, "landuse")
         THEN [s EXCEPT !.area = output_waterway(way, "landuse", @),
                        !.src = Append(@, way)]
         ELSE s
    ELSE s

\* WaterHandler::way without the filter test
way_handler_unfiltered(s, way, filter) ==
    IF has_key(way.tags, "waterway")
    THEN [s EXCEPT !.way = output_waterway(way, "waterway", @)]
    ELSE IF has_key(way.tags, "natural")
    THEN [s EXCEPT !.area = output_waterway(way, "natural", @),
                   !.src = Append(@, way)]
    ELSE IF has_key(way.tags, "landuse")
    THEN [s EXCEPT !.area = output_waterway(way, "landuse", @),
                   !.src = Append(@, way)]
    ELSE s

\* WaterHandler::way
way_handler(s, way, filter) ==
    IF match_any_of(way.tags, filter)
    THEN IF has_key(way.tags, "waterway")
         THEN [s EXCEPT !.way = output_waterway(way, "waterway", @)]
         ELSE IF has_key(way.tags, "natural")
         THEN [s EXCEPT !.area = output_waterway(way, "natural", @),
                        !.src = Append(@, way)]
         ELSE IF has_key(way.tags, "landuse")
         THEN [s EXCEPT !.area = output_waterway(way, "landuse", @),
                        !.src = Append(@, way)]
         ELSE s
    ELSE s

\* WaterHandler::area with the branches of WaterHandler::way: waterway first
area_handler_waterway_first(s, area, filter) ==
    IF match_any_of(area.tags, filter)
    THEN IF has_key(area.tags, "waterway")
         THEN [s EXCEPT !.area = output_area(area, "waterway", @),
                        !.src = Append(@, area)]
         ELSE IF has_key(area.tags, "natural")
         THEN [s EXCEPT !.area = output_area(area, "natural", @),
                        !.src = Append(@, area)]
         ELSE IF has_key(area.tags, "landuse")
         THEN [s EXCEPT !.area = output_area(area, "landuse", @),
                        !.src = Append(@, area)]
         ELSE s
    ELSE s

\* WaterHandler::area
area_handler(s, area, filter) ==
    IF match_any_of(area.tags, filter)
    THEN IF has_key(area.tags, "natural")
         THEN [s EXCEPT !.area = output_area(area, "natural", @),
                        !.src = Append(@, area)]
         ELSE IF has_key(area.tags, "landuse")
         THEN [s EXCEPT !.area = output_area(area, "landuse", @),
                        !.src = Append(@, area)]
         ELSE s
    ELSE s

\* the callback handing only the first area of the buffer to the handler
ApplyBufferHeadOnly(s, buffer, filter) ==
    IF buffer = <<>> THEN s ELSE area_handler(s, Head(buffer), filter)

RECURSIVE ApplyBuffer(_, _, _)
\* the callback given to mp_manager.handler: osmium::apply(area_buffer, data_handler)
ApplyBuffer(s, buffer, filter) ==
    IF buffer = <<>> THEN s
    ELSE ApplyBuffer(area_handler(s, Head(buffer), filter), Tail(buffer), filter)

----------------------------------------------------------------------------
(* main of osmium_waterway_ids *)

\* ExpectedArgc with the same count for both variants
ExpectedArgcOfRulesVariant(v) == 5

\* the argc main requires: the rules-file variant takes one more argument
ExpectedArgc(v) == IF v = "rules_file" THEN 5 ELSE 4

MapIdle ==
    /\ file = [readable |-> FALSE, content |-> <<>>, lines |-> <<>>]
    /\ fpos = 0
    /\ ios = {}
    /\ lpc = "idle"
    /\ id = 0
    /\ name = ""
    /\ m_names = {}
    /\ m_id2Name = [i \in {} |-> ""]
    /\ idFailed = FALSE
    /\ query = 0 - 1
    /\ answer = ""

\* osmium_rivermap is not running
GisIdle ==
    /\ gpc = "idle"
    /\ opt = "none"
    /\ remaining_args = 0
    /\ rsystems_file = FALSE
    /\ features = <<>>

\* the paths a run of osmium_waterway_ids names
CsvPaths == {"input", "wayfile", "areafile"}

\* ArgOf for an argument list that ends with the rules file
ArgOfTrailingRules(v, role) ==
    CASE role = "input" -> 1
      [] role = "wayfile" -> 2
      [] role = "areafile" -> 3
      [] role = "rules" -> 4

\* the index in argv of the path main uses in a role
ArgOf(v, role) ==
    IF v = "rules_file"
    THEN CASE role = "input" -> 1
           [] role = "rules" -> 2
           [] role = "wayfile" -> 3
           [] role = "areafile" -> 4
    ELSE CASE role = "input" -> 1
           [] role = "wayfile" -> 2
           [] role = "areafile" -> 3

\* an entry of the log of opened files
Opened(role, arg) == [role |-> role, arg |-> arg]

\* what a run starts from, whatever the environment
InitRun ==
    /\ variant \in {"rules_file", "builtin"}
    /\ argc \in {4, 5}
    /\ pc = "start"
    /\ rulesFile \in RulesFiles
    /\ variant = "builtin" => rulesFile = File(FALSE, <<>>)
    /\ linePos = 0
    /\ m_filter = <<>>
    /\ created = {}
    /\ waystream = <<>>
    /\ areastream = <<>>
    /\ areasrc = <<>>
    /\ input \in Inputs
    /\ pos = 0
    /\ mp_relations = {}
    /\ area_buffer = <<>>
    /\ exitCode = 0 - 1
    /\ opened = <<>>
    /\ parsed = <<>>
    /\ stderr = <<>>
    /\ MapIdle
    /\ GisIdle

\* a run in an environment where the input opens and both outputs can be created
Init ==
    /\ InitRun
    /\ fs = CsvPaths

\* a run in any environment
InitIO ==
    /\ InitRun
    /\ fs \in SUBSET CsvPaths

\* std::exit(1) after a message on std::cerr, from the usage check or from
\* the catch block of main
Exit1(msg) ==
    /\ pc' = "exit"
    /\ exitCode' = 1
    /\ stderr' = Append(stderr, msg)

\* main: the check of argc
CheckArgs ==
    /\ pc = "start"
    /\ IF argc # ExpectedArgc(variant)
       THEN Exit1("Usage")
       ELSE /\ pc' = IF variant = "rules_file" THEN "construct" ELSE "setup_filter"
            /\ UNCHANGED <<exitCode, stderr>>
    /\ UNCHANGED <<mapVars, gisVars, variant, argc, rulesFile, linePos, m_filter, created,
                   waystream, areastream, areasrc, input, pos, mp_relations, area_buffer,
                   fs, opened, parsed>>

\* builtin variant: the thirteen filter.add_rule calls of main
SetupFilter ==
    /\ pc = "setup_filter"
    /\ m_filter' = BuiltinFilter
    /\ pc' = "pass1_start"
    /\ UNCHANGED <<mapVars, gisVars, variant, argc, rulesFile, linePos, created, waystream,
                   areastream, areasrc, input, pos, mp_relations, area_buffer, exitCode,
                   fs, opened, parsed, stderr>>

\* the output files std::ofstream::open creates and opens, in the order of
\* the two calls; a failed open leaves the stream closed and is not looked at
OpenedSinks(v, env) ==
    SelectSeq(<<Opened("wayfile", ArgOf(v, "wayfile")), Opened("areafile", ArgOf(v, "areafile"))>>,
              LAMBDA o : o.role \in env)

\* WaterHandler::WaterHandler: both streams are opened, which creates the files
ConstructHandler ==
    /\ pc = "construct"
    /\ created' = created \cup (fs \cap {"wayfile", "areafile"})
    /\ opened' = opened \o OpenedSinks(variant, fs)
    /\ pc' = IF variant = "rules_file" THEN "read_rules" ELSE "pass2_start"
    /\ UNCHANGED <<mapVars, gisVars, variant, argc, rulesFile, linePos, m_filter, waystream,
                   areastream, areasrc, input, pos, mp_relations, area_buffer, exitCode,
                   fs, parsed, stderr>>

\* read_expressions_file: opening the file; it throws when that fails
OpenRulesFile ==
    /\ pc = "read_rules"
    /\ IF rulesFile.readable
       THEN /\ pc' = "rules_loop"
            /\ opened' = Append(opened, Opened("rules", ArgOf(variant, "rules")))
            /\ UNCHANGED <<exitCode, stderr>>
       ELSE /\ Exit1("what")
            /\ UNCHANGED opened
    /\ UNCHANGED <<mapVars, gisVars, variant, argc, rulesFile, linePos, m_filter, created,
                   waystream, areastream, areasrc, input, pos, mp_relations, area_buffer,
                   fs, parsed>>

\* read_expressions_file: one iteration of the getline loop
ReadRulesLine ==
    /\ pc = "rules_loop"
    /\ linePos < Len(rulesFile.content)
    /\ linePos' = linePos + 1
    /\ LET line == rulesFile.content[linePos + 1]
       IN  IF ~LineIsParsed(line)
           THEN UNCHANGED <<m_filter, pc, exitCode, parsed, stderr>>
           ELSE /\ parsed' = Append(parsed, StripLine(line))
                /\ IF ParseExpression(StripLine(line)).ok
                   THEN /\ m_filter' = parse_and_add_expression(m_filter, StripLine(line))
                        /\ UNCHANGED <<pc, exitCode, stderr>>
                   ELSE /\ Exit1("what")
                        /\ UNCHANGED m_filter
    /\ UNCHANGED <<mapVars, gisVars, variant, argc, rulesFile, created, waystream, areastream,
                   areasrc, input, pos, mp_relations, area_buffer, fs, opened>>

\* read_expressions_file: getline fails at the end of the file, the loop ends
RulesEof ==
    /\ pc = "rules_loop"
    /\ linePos = Len(rulesFile.content)
    /\ pc' = "pass1_start"
    /\ UNCHANGED <<mapVars, gisVars, variant, argc, rulesFile, linePos, m_filter, created,
                   waystream, areastream, areasrc, input, pos, mp_relations, area_buffer,
                   exitCode, fs, opened, parsed, stderr>>

\* "Pass 1...", then read_relations opens the input; it throws when that fails
StartPass1 ==
    /\ pc = "pass1_start"
    /\ pos' = 0
    /\ IF "input" \in fs
       THEN /\ pc' = "pass1"
            /\ opened' = Append(opened, Opened("input", ArgOf(variant, "input")))
            /\ stderr' = Append(stderr, "Pass 1...")
            /\ UNCHANGED exitCode
       ELSE /\ pc' = "exit"
            /\ exitCode' = 1
            /\ stderr' = stderr \o <<"Pass 1...", "what">>
            /\ UNCHANGED opened
    /\ UNCHANGED <<mapVars, gisVars, variant, argc, rulesFile, linePos, m_filter, created,
                   waystream, areastream, areasrc, input, mp_relations, area_buffer,
                   fs, parsed>>

\* pass 1, osmium::relations::read_relations: one object of the input; only
\* relations reach the multipolygon manager
Pass1Step ==
    /\ pc = "pass1"
    /\ pos < Len(input)
    /\ pos' = pos + 1
    /\ LET o == input[pos + 1]
       IN  mp_relations' = IF o.kind = "relation" /\ new_relation(o, m_filter)
                           THEN mp_relations \cup {o.id}
                           ELSE mp_relations
    /\ UNCHANGED <<mapVars, gisVars, variant, argc, pc, rulesFile, linePos, m_filter, created,
                   waystream, areastream, areasrc, input, area_buffer, exitCode,
                   fs, opened, parsed, stderr>>

\* the end of pass 1 without the test that the input is exhausted
Pass1DoneEarly ==
    /\ pc = "pass1"
    /\ pc' = IF variant = "rules_file" THEN "pass2_start" ELSE "construct"
    /\ stderr' = Append(stderr, "Pass 1 done")
    /\ UNCHANGED <<mapVars, gisVars, variant, argc, rulesFile, linePos, m_filter, created,
                   waystream, areastream, areasrc, input, pos, mp_relations, area_buffer,
                   exitCode, fs, opened, parsed>>

\* the end of pass 1: read_relations returns when the input is exhausted
Pass1Done ==
    /\ pc = "pass1"
    /\ pos = Len(input)
    /\ pc' = IF variant = "rules_file" THEN "pass2_start" ELSE "construct"
    /\ stderr' = Append(stderr, "Pass 1 done")
    /\ UNCHANGED <<mapVars, gisVars, variant, argc, rulesFile, linePos, m_filter, created,
                   waystream, areastream, areasrc, input, pos, mp_relations, area_buffer,
                   exitCode, fs, opened, parsed>>

\* "Pass 2...", then the osmium::io::Reader of pass 2 opens the input
StartPass2 ==
    /\ pc = "pass2_start"
    /\ pos' = 0
    /\ IF "input" \in fs
       THEN /\ pc' = "pass2"
            /\ opened' = Append(opened, Opened("input", ArgOf(variant, "input")))
            /\ stderr' = Append(stderr, "Pass 2...")
            /\ UNCHANGED exitCode
       ELSE /\ pc' = "exit"
            /\ exitCode' = 1
            /\ stderr' = stderr \o <<"Pass 2...", "what">>
            /\ UNCHANGED opened
    /\ UNCHANGED <<mapVars, gisVars, variant, argc, rulesFile, linePos, m_filter, created,
                   waystream, areastream, areasrc, input, mp_relations, area_buffer,
                   fs, parsed>>

\* pass 2, osmium::apply(reader, location_handler, data_handler, mp handler):
\* one object of the input goes through data_handler and then the manager,
\* which may flush its buffer of areas to the callback
Pass2Step ==
    /\ pc = "pass2"
    /\ pos < Len(input)
    /\ pos' = pos + 1
    /\ LET o  == input[pos + 1]
           s0 == Sinks(waystream, areastream, areasrc)
           s1 == IF o.kind = "way" THEN way_handler(s0, o, m_filter) ELSE s0
           b1 == IF o.kind = "way"
                 THEN area_buffer \o AreasAfterWay(input, pos + 1, mp_relations, m_filter)
                 ELSE area_buffer
       IN  \E flush \in BOOLEAN :
             LET s2 == IF flush THEN ApplyBuffer(s1, b1, m_filter) ELSE s1
             IN  /\ waystream' = s2.way
                 /\ areastream' = s2.area
                 /\ areasrc' = s2.src
                 /\ area_buffer' = IF flush THEN <<>> ELSE b1
    /\ UNCHANGED <<mapVars, gisVars, variant, argc, pc, rulesFile, linePos, m_filter, created,
                   input, mp_relations, exitCode, fs, opened, parsed, stderr>>

\* the end of pass 2: the manager's handler flushes what is left, main returns
Pass2Done ==
    /\ pc = "pass2"
    /\ pos = Len(input)
    /\ LET s2 == ApplyBuffer(Sinks(waystream, areastream, areasrc), area_buffer, m_filter)
       IN  /\ waystream' = s2.way
           /\ areastream' = s2.area
           /\ areasrc' = s2.src
    /\ area_buffer' = <<>>
    /\ pc' = "done"
    /\ exitCode' = 0
    /\ stderr' = Append(stderr, "Pass 2 done")
    /\ UNCHANGED <<mapVars, gisVars, variant, argc, rulesFile, linePos, m_filter, created,
                   input, pos, mp_relations, fs, opened, parsed>>

Next ==
    \/ CheckArgs
    \/ SetupFilter
    \/ ConstructHandler
    \/ OpenRulesFile
    \/ ReadRulesLine
    \/ RulesEof
    \/ StartPass1
    \/ Pass1Step
    \/ Pass1Done
    \/ StartPass2
    \/ Pass2Step
    \/ Pass2Done

Spec == Init /\ [][Next]_vars

\* the same tool in any environment
SpecIO == InitIO /\ [][Next]_vars

----------------------------------------------------------------------------
(* The river-system csv and the std::ifstream reading it *)

\* data lines in a csv body
MaxLines == 2

Header == <<"i","d",",","r","s","y","s","t","e","m">>

Digits == ("0" :> 0) @@ ("1" :> 1) @@ ("2" :> 2) @@ ("5" :> 5) @@ ("6" :> 6) @@ ("7" :> 7)

\* the characters std::isspace accepts, among those of the files
Whitespace == {" ", "\n", "\r", "\t"}

\* a data line: the text of its id field, its separator, the text of its name
DataLine(idtxt, sep, nametxt) == [idtxt |-> idtxt, sep |-> sep, nametxt |-> nametxt]

LineChars(l) == l.idtxt \o <<l.sep>> \o l.nametxt

DataLines ==
    { DataLine(<<"5">>, ",", <<"R","h","i","n","e">>),
      DataLine(<<"6">>, ",", <<"R","h","i","n","e">>),
      DataLine(<<"7">>, ",", <<"D","a","n","u","b","e">>),
      DataLine(<<"5">>, ",", <<"D","a","n","u","b","e">>),
      DataLine(<<"1","2">>, ",", <<"E","l","b","e">>),
      DataLine(<<"x">>, ",", <<"R","h","i","n","e">>),
      DataLine(<<"6">>, ";", <<"E","l","b","e">>),
      DataLine(<<"7">>, ",", <<"R","i","o"," ","P","o">>) }

RECURSIVE BodyChars(_, _)
\* the characters of a body: its lines, each ended by a newline, the last one
\* only when the file ends with a newline
BodyChars(lines, finalNewline) ==
    IF lines = <<>> THEN <<>>
    ELSE LineChars(Head(lines))
         \o (IF Len(lines) > 1 \/ finalNewline THEN <<"\n">> ELSE <<>>)
         \o BodyChars(Tail(lines), finalNewline)

Bodies == UNION { [1..n -> DataLines] : n \in 0..MaxLines }

\* a csv file: whether it can be opened, its characters, and the data lines
\* its body was written from
CsvFile(readable, content, lines) ==
    [readable |-> readable, content |-> content, lines |-> lines]

\* files whose first line is not the header
BadHeaderFiles ==
    { CsvFile(FALSE, <<>>, <<>>),
      CsvFile(TRUE, <<>>, <<>>),
      CsvFile(TRUE, <<"\n">> \o Header \o <<"\n", "5", ",", "R">>, <<>>),
      CsvFile(TRUE, Header \o <<" ", "\n", "5", ",", "R", "\n">>, <<>>),
      CsvFile(TRUE, Header \o <<"\r", "\n", "5", ",", "R", "\r", "\n">>, <<>>),
      CsvFile(TRUE, <<"i", "d", "\n", "5", ",", "R", "\n">>, <<>>),
      CsvFile(TRUE, <<"5", ",", "R", "\n">>, <<>>) }

\* files that start with the header line
HeaderFiles ==
    { CsvFile(TRUE, Header, <<>>) }
    \cup { CsvFile(TRUE, Header \o <<"\n">> \o BodyChars(b, nl), b) :
             b \in Bodies, nl \in BOOLEAN }

CsvFiles == BadHeaderFiles \cup HeaderFiles

\* a stream: the characters consumed and the state bits
Stream(p, bits) == [pos |-> p, bits |-> bits]

good(st) == st.bits = {}

\* the first position after p that holds no whitespace, Len + 1 when none
SkipWs(chars, p) ==
    IF \E i \in (p + 1)..Len(chars) : chars[i] \notin Whitespace
    THEN CHOOSE i \in (p + 1)..Len(chars) :
           /\ chars[i] \notin Whitespace
           /\ \A j \in (p + 1)..(i - 1) : chars[j] \in Whitespace
    ELSE Len(chars) + 1

\* the first position from p on that holds a character of S, Len + 1 when none
FirstIn(chars, p, S) ==
    IF \E i \in p..Len(chars) : chars[i] \in S
    THEN CHOOSE i \in p..Len(chars) :
           chars[i] \in S /\ \A j \in p..(i - 1) : chars[j] \notin S
    ELSE Len(chars) + 1

\* the first position from p on that holds no character of S, Len + 1 when none
FirstNotIn(chars, p, S) ==
    IF \E i \in p..Len(chars) : chars[i] \notin S
    THEN CHOOSE i \in p..Len(chars) :
           chars[i] \notin S /\ \A j \in p..(i - 1) : chars[j] \in S
    ELSE Len(chars) + 1

RECURSIVE DecimalValue(_)
\* the number a run of digits denotes
DecimalValue(ds) ==
    IF ds = <<>> THEN 0
    ELSE 10 * DecimalValue(SubSeq(ds, 1, Len(ds) - 1)) + Digits[ds[Len(ds)]]

\* std::getline(ifs, header): the stream after the call and the line read
getline(chars, st, old) ==
    IF ~good(st) THEN [st |-> Stream(st.pos, st.bits \cup {"fail"}), str |-> old]
    ELSE LET e == FirstIn(chars, st.pos + 1, {"\n"})
         IN  IF e <= Len(chars)
             THEN [st |-> Stream(e, {}), str |-> SubSeq(chars, st.pos + 1, e - 1)]
             ELSE [st |-> Stream(Len(chars),
                                 IF e = st.pos + 1 THEN {"eof", "fail"} ELSE {"eof"}),
                   str |-> SubSeq(chars, st.pos + 1, Len(chars))]

\* ifs >> id: the stream after the extraction, the value of id, and whether a
\* field that is no integer made it fail. A stream that is not good, or that
\* ends while whitespace is skipped, leaves id as it was; a field without
\* digits stores 0 and sets failbit
ExtractLong(chars, st, old) ==
    IF ~good(st)
    THEN [st |-> Stream(st.pos, st.bits \cup {"fail"}), val |-> old, nan |-> FALSE]
    ELSE LET b == SkipWs(chars, st.pos)
             e == FirstNotIn(chars, b, DOMAIN Digits)
         IN  IF b > Len(chars)
             THEN [st |-> Stream(Len(chars), {"eof", "fail"}), val |-> old, nan |-> FALSE]
             ELSE IF e = b
             THEN [st |-> Stream(b - 1, {"fail"}), val |-> 0, nan |-> TRUE]
             ELSE [st |-> Stream(e - 1, IF e > Len(chars) THEN {"eof"} ELSE {}),
                   val |-> DecimalValue(SubSeq(chars, b, e - 1)), nan |-> FALSE]

\* the manipulator comma: one character is extracted, and any other character
\* than ',' leaves the stream with badbit alone (is.clear(std::ios::badbit))
comma(chars, st) ==
    IF ~good(st) THEN Stream(st.pos, st.bits \cup {"fail"})
    ELSE LET b == SkipWs(chars, st.pos)
         IN  IF b > Len(chars) THEN Stream(Len(chars), {"eof", "fail"})
             ELSE IF chars[b] # "," THEN Stream(b, {"bad"})
             ELSE Stream(b, {})

\* ifs >> name: the stream after the extraction and the value of name
ExtractString(chars, st, old) ==
    IF ~good(st) THEN [st |-> Stream(st.pos, st.bits \cup {"fail"}), str |-> old]
    ELSE LET b == SkipWs(chars, st.pos)
             e == FirstIn(chars, b, Whitespace)
         IN  IF b > Len(chars)
             THEN [st |-> Stream(Len(chars), {"eof", "fail"}), str |-> old]
             ELSE [st |-> Stream(e - 1, IF e > Len(chars) THEN {"eof"} ELSE {}),
                   str |-> Join(SubSeq(chars, b, e - 1))]

----------------------------------------------------------------------------
(* RiversystemMap *)

\* values an uninitialized `long id` may hold
IndeterminateIds == {0, 7, 99}

\* ids passed to getName
QueryIds == {0, 5, 6, 7, 12, 99}

\* load's test of the header line
HeaderPrefixMatches(header) == Len(header) >= Len(Header) /\ SubSeq(header, 1, Len(Header)) = Header

HeaderMatches(header) == header = Header

\* RiversystemMap::insert with operator[] in place of std::map::insert
insert_overwrite(names, id2Name, i, n) ==
    [names |-> names \cup {n},
     id2Name |-> [k \in (DOMAIN id2Name) \cup {i} |-> IF k = i THEN n ELSE id2Name[k]]]

\* RiversystemMap::insert: the name joins m_names, and the id is mapped to the
\* stored name unless the map already holds the id
insert(names, id2Name, i, n) ==
    [names |-> names \cup {n},
     id2Name |-> IF i \in DOMAIN id2Name THEN id2Name
                 ELSE [k \in (DOMAIN id2Name) \cup {i} |-> IF k = i THEN n ELSE id2Name[k]]]

\* RiversystemMap::getName
getName(id2Name, i) == IF i \in DOMAIN id2Name THEN id2Name[i] ELSE ""

CsvIdle ==
    /\ variant = "none"
    /\ argc = 0
    /\ pc = "idle"
    /\ rulesFile = File(FALSE, <<>>)
    /\ linePos = 0
    /\ m_filter = <<>>
    /\ created = {}
    /\ waystream = <<>>
    /\ areastream = <<>>
    /\ areasrc = <<>>
    /\ input = <<>>
    /\ pos = 0
    /\ mp_relations = {}
    /\ area_buffer = <<>>
    /\ exitCode = 0 - 1
    /\ fs = {}
    /\ opened = <<>>
    /\ parsed = <<>>
    /\ stderr = <<>>

InitLoad ==
    /\ CsvIdle
    /\ GisIdle
    /\ file \in CsvFiles
    /\ fpos = 0
    /\ ios = {}
    /\ lpc = "start"
    /\ id \in IndeterminateIds
    /\ name = ""
    /\ m_names = {}
    /\ m_id2Name = [i \in {} |-> ""]
    /\ idFailed = FALSE
    /\ query = 0 - 1
    /\ answer = ""

\* load, up to the loop: open, getline of the header, the two checks
LoadHeader ==
    /\ lpc = "start"
    /\ LET ifs0 == Stream(0, IF file.readable THEN {} ELSE {"fail"})
           r == IF "eof" \notin ifs0.bits
                THEN getline(file.content, ifs0, <<>>)
                ELSE [st |-> ifs0, str |-> <<>>]
       IN  /\ fpos' = r.st.pos
           /\ ios' = r.st.bits
           /\ lpc' = IF r.str = <<>> \/ ~HeaderMatches(r.str) THEN "error" ELSE "loop"
    /\ UNCHANGED <<csvVars, gisVars, file, id, name, m_names, m_id2Name, idFailed, query, answer>>

\* load: one iteration of `while (!ifs.eof())`
LoadIter ==
    /\ lpc = "loop"
    /\ "eof" \notin ios
    /\ LET r1 == ExtractLong(file.content, Stream(fpos, ios), id)
           s2 == comma(file.content, r1.st)
           r3 == ExtractString(file.content, s2, name)
           t  == insert(m_names, m_id2Name, r1.val, r3.str)
       IN  /\ fpos' = r3.st.pos
           /\ ios' = r3.st.bits
           /\ id' = r1.val
           /\ name' = r3.str
           /\ m_names' = t.names
           /\ m_id2Name' = t.id2Name
           /\ idFailed' = (idFailed \/ r1.nan)
    /\ UNCHANGED <<csvVars, gisVars, file, lpc, query, answer>>

\* load: the loop ends on eof, the stream is closed
LoadEnd ==
    /\ lpc = "loop"
    /\ "eof" \in ios
    /\ lpc' = "done"
    /\ UNCHANGED <<csvVars, gisVars, file, fpos, ios, id, name, m_names, m_id2Name, idFailed,
                   query, answer>>

\* a call of getName on the loaded map
GetName ==
    /\ lpc = "done"
    /\ \E q \in QueryIds :
         /\ query' = q
         /\ answer' = getName(m_id2Name, q)
    /\ UNCHANGED <<csvVars, gisVars, file, fpos, ios, lpc, id, name, m_names, m_id2Name, idFailed>>

NextLoad ==
    \/ LoadHeader
    \/ LoadIter
    \/ LoadEnd
    \/ GetName

SpecLoad == InitLoad /\ [][NextLoad]_vars

----------------------------------------------------------------------------
(* main of osmium_rivermap and MyOGRHandler *)

\* the paths a run of osmium_rivermap names
GisPaths == {"input", "output"}

\* the river-system files of the runs: one that does not open, one without
\* the header, one that loads, one with a line whose id is no integer
GisCsvFiles ==
    { CsvFile(FALSE, <<>>, <<>>),
      CsvFile(TRUE, <<"5", ",", "R", "\n">>, <<>>),
      LET b == << DataLine(<<"7">>, ",", <<"D","a","n","u","b","e">>),
                  DataLine(<<"1","2">>, ",", <<"E","l","b","e">>) >>
      IN  CsvFile(TRUE, Header \o <<"\n">> \o BodyChars(b, TRUE), b),
      LET b == << DataLine(<<"x">>, ",", <<"R","h","i","n","e">>) >>
      IN  CsvFile(TRUE, Header \o <<"\n">> \o BodyChars(b, TRUE), b) }

\* the ways of the runs: waterways with and without a name and an entry in
\* the river-system file, and a way that is no waterway
GisWays ==
    { Way(5,  ("waterway" :> "stream") @@ ("name" :> "Aubach"), <<1, 2>>),
      Way(7,  ("waterway" :> "river"), <<1, 2, 3>>),
      Way(8,  ("highway" :> "primary"), <<4, 5>>),
      Way(12, ("waterway" :> "dam"), <<6, 7, 8, 9, 6>>) }

\* the inputs: at most MaxWays ways in any order, then at most MaxRels relations
GisInputs ==
    { w \o InIdOrder(r) :
        w \in SeqsOf(GisWays, MaxWays),
        r \in { R \in SUBSET {o \in Relations : o.id = 22} : Cardinality(R) <= MaxRels } }

\* what m_factory.create_linestring(way) does: it returns a linestring, or
\* throws osmium::geometry_error (fewer than two distinct points), or throws
\* osmium::invalid_location, a std::range_error, for a node whose location the
\* index does not have (location_handler.ignore_errors())
GeometryOutcomes == {"linestring", "geometry_error", "invalid_location"}

\* a feature of the layer: FieldUnset stands for a field that was not set
FieldUnset == "<unset>"

Feature(i, n, t, r) == [id |-> i, name |-> n, type |-> t, rsystem |-> r]

\* MyOGRHandler::way, the exception that leaves its catch block propagates:
\* what becomes of the layer and of std::cerr, and whether it throws
ogr_way(layer, err, way, geometry, id2Name) ==
    IF ~has_key(way.tags, "waterway")
    THEN [features |-> layer, stderr |-> err, thrown |-> FALSE]
    ELSE CASE geometry = "linestring" ->
                [features |-> Append(layer,
                                Feature(way.id,
                                        IF has_key(way.tags, "name") THEN way.tags["name"]
                                        ELSE FieldUnset,
                                        way.tags["waterway"],
                                        getName(id2Name, way.id))),
                 stderr |-> err, thrown |-> FALSE]
           [] geometry = "geometry_error" ->
                [features |-> layer,
                 stderr |-> Append(err, "Ignoring illegal geometry for way "
                                        \o ToString(way.id) \o "."),
                 thrown |-> FALSE]
           [] geometry = "invalid_location" ->
                [features |-> layer, stderr |-> err, thrown |-> TRUE]

InitGis ==
    /\ variant = "none"
    /\ argc = 0
    /\ pc = "idle"
    /\ rulesFile = File(FALSE, <<>>)
    /\ linePos = 0
    /\ m_filter = <<>>
    /\ created = {}
    /\ waystream = <<>>
    /\ areastream = <<>>
    /\ areasrc = <<>>
    /\ input \in GisInputs
    /\ pos = 0
    /\ mp_relations = {}
    /\ area_buffer = <<>>
    /\ exitCode = 0 - 1
    /\ fs \in SUBSET GisPaths
    /\ opened = <<>>
    /\ parsed = <<>>
    /\ stderr = <<>>
    /\ gpc = "start"
    /\ opt \in {"run", "help", "list", "bad"}
    /\ remaining_args \in 0..3
    /\ rsystems_file \in BOOLEAN
    /\ features = <<>>
    /\ file \in GisCsvFiles
    /\ ~rsystems_file => file = CsvFile(FALSE, <<>>, <<>>)
    /\ fpos = 0
    /\ ios = {}
    /\ lpc = "idle"
    /\ id = 0
    /\ name = ""
    /\ m_names = {}
    /\ m_id2Name = [i \in {} |-> ""]
    /\ idFailed = FALSE
    /\ query = 0 - 1
    /\ answer = ""

\* the catch block of main: "Error: " and e.what() on std::cerr, return 1
GisError ==
    /\ gpc' = "exit"
    /\ exitCode' = 1
    /\ stderr' = Append(stderr, "Error")

\* the getopt_long loop: -h and -L return 0, an unknown option returns 1
ParseOptions ==
    /\ gpc = "start"
    /\ CASE opt = "run" -> gpc' = "check_args" /\ UNCHANGED exitCode
         [] opt \in {"help", "list"} -> gpc' = "exit" /\ exitCode' = 0
         [] opt = "bad" -> gpc' = "exit" /\ exitCode' = 1
    /\ UNCHANGED <<mapVars, opt, remaining_args, rsystems_file, features, variant, argc, pc,
                   rulesFile, linePos, m_filter, created, waystream, areastream, areasrc,
                   input, pos, mp_relations, area_buffer, fs, opened, parsed, stderr>>

\* the check of remaining_args
CheckRemainingArgs ==
    /\ gpc = "check_args"
    /\ IF remaining_args > 2
       THEN /\ gpc' = "exit"
            /\ exitCode' = 1
            /\ stderr' = Append(stderr, "Usage")
       ELSE /\ gpc' = "open_reader"
            /\ UNCHANGED <<exitCode, stderr>>
    /\ UNCHANGED <<mapVars, opt, remaining_args, rsystems_file, features, variant, argc, pc,
                   rulesFile, linePos, m_filter, created, waystream, areastream, areasrc,
                   input, pos, mp_relations, area_buffer, fs, opened, parsed>>

\* osmium::io::Reader reader{input_filename}: the input is argv[optind], or
\* stdin when there is no positional argument; it throws when the open fails
OpenReader ==
    /\ gpc = "open_reader"
    /\ IF remaining_args = 0 \/ "input" \in fs
       THEN /\ gpc' = "create_dataset"
            /\ opened' = Append(opened, Opened("input", IF remaining_args = 0 THEN 0 ELSE 1))
            /\ UNCHANGED <<exitCode, stderr>>
       ELSE /\ GisError
            /\ UNCHANGED opened
    /\ UNCHANGED <<mapVars, opt, remaining_args, rsystems_file, features, variant, argc, pc,
                   rulesFile, linePos, m_filter, created, waystream, areastream, areasrc,
                   input, pos, mp_relations, area_buffer, fs, parsed>>

\* gdalcpp::Dataset dataset{...}: the output is argv[optind+1], or "ogr_out";
\* it throws when the dataset cannot be created
CreateDataset ==
    /\ gpc = "create_dataset"
    /\ IF "output" \in fs
       THEN /\ gpc' = "load"
            /\ created' = created \cup {"output"}
            /\ opened' = Append(opened, Opened("output", IF remaining_args = 2 THEN 2 ELSE 0))
            /\ UNCHANGED <<exitCode, stderr>>
       ELSE /\ GisError
            /\ UNCHANGED <<created, opened>>
    /\ UNCHANGED <<mapVars, opt, remaining_args, rsystems_file, features, variant, argc, pc,
                   rulesFile, linePos, m_filter, waystream, areastream, areasrc,
                   input, pos, mp_relations, area_buffer, fs, parsed>>

\* `if (! rsystems_file.empty()) rsystems.load(rsystems_file)`: the call
LoadRsystems ==
    /\ gpc = "load"
    /\ IF rsystems_file
       THEN /\ gpc' = "loading"
            /\ lpc' = "start"
            /\ id' \in IndeterminateIds
       ELSE /\ gpc' = "handler"
            /\ UNCHANGED <<lpc, id>>
    /\ UNCHANGED <<csvVars, opt, remaining_args, rsystems_file, features, file, fpos, ios,
                   name, m_names, m_id2Name, idFailed, query, answer>>

\* load has returned, or it has thrown and main catches
LoadFinished ==
    /\ gpc = "loading"
    /\ lpc \in {"done", "error"}
    /\ IF lpc = "done"
       THEN gpc' = "handler" /\ UNCHANGED <<exitCode, stderr>>
       ELSE GisError
    /\ UNCHANGED <<mapVars, opt, remaining_args, rsystems_file, features, variant, argc, pc,
                   rulesFile, linePos, m_filter, created, waystream, areastream, areasrc,
                   input, pos, mp_relations, area_buffer, fs, opened, parsed>>

\* MyOGRHandler::MyOGRHandler: the layer "waterway" and its four fields
ConstructOGRHandler ==
    /\ gpc = "handler"
    /\ gpc' = "apply"
    /\ features' = <<>>
    /\ pos' = 0
    /\ UNCHANGED <<mapVars, opt, remaining_args, rsystems_file, variant, argc, pc,
                   rulesFile, linePos, m_filter, created, waystream, areastream, areasrc,
                   input, mp_relations, area_buffer, exitCode, fs, opened, parsed, stderr>>

\* osmium::apply(reader, location_handler, ogr_handler): one object of the input
ApplyStep ==
    /\ gpc = "apply"
    /\ pos < Len(input)
    /\ pos' = pos + 1
    /\ LET o == input[pos + 1]
       IN  IF o.kind # "way"
           THEN UNCHANGED <<gpc, features, stderr, exitCode>>
           ELSE \E geometry \in GeometryOutcomes :
                  LET r == ogr_way(features, stderr, o, geometry, m_id2Name)
                  IN  /\ features' = r.features
                      /\ IF r.thrown
                         THEN /\ gpc' = "exit"
                              /\ exitCode' = 1
                              /\ stderr' = Append(r.stderr, "Error")
                         ELSE /\ stderr' = r.stderr
                              /\ UNCHANGED <<gpc, exitCode>>
    /\ UNCHANGED <<mapVars, opt, remaining_args, rsystems_file, variant, argc, pc,
                   rulesFile, linePos, m_filter, created, waystream, areastream, areasrc,
                   input, mp_relations, area_buffer, fs, opened, parsed>>

\* the end of the input: reader.close(), return 0
ApplyDone ==
    /\ gpc = "apply"
    /\ pos = Len(input)
    /\ gpc' = "done"
    /\ exitCode' = 0
    /\ UNCHANGED <<mapVars, opt, remaining_args, rsystems_file, features, variant, argc, pc,
                   rulesFile, linePos, m_filter, created, waystream, areastream, areasrc,
                   input, pos, mp_relations, area_buffer, fs, opened, parsed, stderr>>

NextGis ==
    \/ ParseOptions
    \/ CheckRemainingArgs
    \/ OpenReader
    \/ CreateDataset
    \/ LoadRsystems
    \/ LoadHeader
    \/ LoadIter
    \/ LoadEnd
    \/ LoadFinished
    \/ ConstructOGRHandler
    \/ ApplyStep
    \/ ApplyDone

SpecGis == InitGis /\ [][NextGis]_vars

----------------------------------------------------------------------------
(* The three tools together *)

InitTools == Init \/ InitGis

NextTools == Next \/ NextGis

SpecTools == InitTools /\ [][NextTools]_vars

----------------------------------------------------------------------------
(* Properties of osmium_waterway_ids, checked under Spec *)

\* the candidate classifying keys, in priority order
Priority == <<"waterway", "natural", "landuse">>

\* the first key of Priority present in the tags, "none" when there is none
ClassifyKey(tags) ==
    IF \E i \in 1..3 : Priority[i] \in DOMAIN tags
    THEN Priority[CHOOSE i \in 1..3 :
                    /\ Priority[i] \in DOMAIN tags
                    /\ \A j \in 1..(i - 1) : Priority[j] \notin DOMAIN tags]
    ELSE "none"

RECURSIVE IdList(_, _)
\* the first n ids of a list, each preceded by a comma
IdList(ids, n) ==
    IF n = 0 THEN "" ELSE IdList(ids, n - 1) \o "," \o ToString(ids[n])

\* the line "<id>,<type>[,<node id>]*"
CsvLine(i, type, ids) == ToString(i) \o "," \o type \o IdList(ids, Len(ids))

RECURSIVE OuterNodes(_)
\* the node ids of the outer rings, concatenated in ring order
OuterNodes(rings) ==
    IF rings = <<>> THEN <<>>
    ELSE (IF Head(rings).role = "outer" THEN Head(rings).nodes ELSE <<>>)
         \o OuterNodes(Tail(rings))

\* some include rule's key/value pair is present in the tags
IncludePairPresent(rules, tags) ==
    \E i \in DOMAIN rules :
        /\ rules[i].result
        /\ rules[i].key \in DOMAIN tags
        /\ (rules[i].any \/ tags[rules[i].key] = rules[i].value)

\* some exclude rule's key/value pair is present in the tags
ExcludePairPresent(rules, tags) ==
    \E i \in DOMAIN rules :
        /\ ~rules[i].result
        /\ rules[i].key \in DOMAIN tags
        /\ (rules[i].any \/ tags[rules[i].key] = rules[i].value)

Accepted(tags) == IncludePairPresent(m_filter, tags) /\ ~ExcludePairPresent(m_filter, tags)

\* the ways pass 2 has handed to the handler so far
HandledWays ==
    IF pc \in {"pass2", "done"}
    THEN { input[i] : i \in { j \in 1..pos : input[j].kind = "way" } }
    ELSE {}

InputWays == { input[i] : i \in { j \in DOMAIN input : input[j].kind = "way" } }

\* the lines a record of the way could be, whichever of its tags gave the type
LinesOf(w) == { CsvLine(w.id, w.tags[k], w.nodes) : k \in DOMAIN w.tags }

\* how many lines of a sink are records of the way
CountIn(sink, w) == Cardinality({ j \in DOMAIN sink : sink[j] \in LinesOf(w) })

\* the tag lists the filter is applied to: those of the ways of the input and
\* of the areas of its ways and relations
TestedTags ==
    { input[i].tags : i \in DOMAIN input }
    \cup { TagsWithoutType(input[i].tags) : i \in DOMAIN input }

C2_ClassifyAndDispatch ==
    \A w \in HandledWays :
        Accepted(w.tags) /\ ClassifyKey(w.tags) # "none" =>
            LET k    == ClassifyKey(w.tags)
                line == CsvLine(w.id, w.tags[k], w.nodes)
            IN  IF k = "waterway"
                THEN /\ \E j \in DOMAIN waystream : waystream[j] = line
                     /\ CountIn(waystream, w) = 1
                     /\ \A j \in DOMAIN areasrc : areasrc[j] # w
                ELSE /\ CountIn(waystream, w) = 0
                     /\ \E j \in DOMAIN areasrc : areasrc[j] = w
                     /\ \A j \in DOMAIN areasrc : areasrc[j] = w => areastream[j] = line

\* C2 witness: the way tagged natural=water, landuse=basin has been written
\* to the area sink with type water, and a waterway to the way sink
C2_Witness ==
    /\ pc = "done"
    /\ \E j \in DOMAIN areasrc :
         /\ areasrc[j].kind = "way"
         /\ areasrc[j].tags = ("natural" :> "water") @@ ("landuse" :> "basin")
         /\ areastream[j] = "9,water,1,2,3,4,1"
    /\ waystream # <<>>

\* C3 as stated: after pass 2 every accepted way has exactly one line in the
\* way sink
C3_EveryAcceptedWayInWaySink ==
    pc = "done" =>
        \A w \in InputWays : Accepted(w.tags) => CountIn(waystream, w) = 1

\* C3: every accepted way that carries a waterway tag has, once handled,
\* exactly one line in the way sink, and the line lists the way's node ids in
\* the order of the way
C3_WaterwaysInWaySink ==
    \A w \in HandledWays :
        Accepted(w.tags) /\ "waterway" \in DOMAIN w.tags =>
            /\ CountIn(waystream, w) = 1
            /\ \E j \in DOMAIN waystream :
                 waystream[j] = ToString(w.id) \o "," \o w.tags["waterway"]
                                \o IdList(w.nodes, Len(w.nodes))

\* C3 witness: pass 2 is over and the way sink holds two waterways
C3_Witness ==
    /\ pc = "done"
    /\ Len(waystream) = 2
    /\ \E w \in InputWays : Accepted(w.tags) /\ "waterway" \in DOMAIN w.tags
                            /\ Len(w.nodes) >= 4

\* C4: a way that matches no rule has no line in either sink; when the only
\* matched way of an input of ways is the river 7 with nodes 1,2,3, the way
\* sink holds the single line 7,river,1,2,3 and the area sink is empty
C4_UnmatchedWaysLeaveNoLine ==
    /\ \A w \in HandledWays :
         ~Accepted(w.tags) =>
             /\ CountIn(waystream, w) = 0
             /\ CountIn(areastream, w) = 0
             /\ \A j \in DOMAIN areasrc :
                  areasrc[j] # w /\ ~(areasrc[j].kind = "area" /\ areasrc[j].id = 2 * w.id)
    /\ ( /\ pc = "done"
         /\ \A i \in DOMAIN input : input[i].kind = "way"
         /\ \E w \in InputWays : w.id = 7 /\ Accepted(w.tags)
         /\ \A w \in InputWays : w.id # 7 => ~Accepted(w.tags) )
       => waystream = << "7,river,1,2,3" >> /\ areastream = <<>>

\* C4 witness: the run over the river and an unmatched way that has a
\* classifying key has ended
C4_Witness ==
    /\ pc = "done"
    /\ Len(input) = 2
    /\ \E w \in InputWays : w.id = 7 /\ Accepted(w.tags)
    /\ \E w \in InputWays : ~Accepted(w.tags) /\ ClassifyKey(w.tags) # "none"
    /\ waystream = << "7,river,1,2,3" >>
    /\ areastream = <<>>

\* C5: the node ids on the line of an area are the node ids of its outer
\* rings, concatenated in ring order, and nothing else
C5_OuterRingsOnly ==
    \A j \in DOMAIN areasrc :
        areasrc[j].kind = "area" =>
            \E k \in {"natural", "landuse"} \cap DOMAIN areasrc[j].tags :
                areastream[j] = ToString(orig_id(areasrc[j])) \o "," \o areasrc[j].tags[k]
                                \o IdList(OuterNodes(areasrc[j].rings),
                                          Len(OuterNodes(areasrc[j].rings)))

\* C5 witness: the area of relation 20, one outer and one inner ring of four
\* nodes each, is on a line with the four ids of the outer ring
C5_Witness ==
    \E j \in DOMAIN areasrc :
        /\ areasrc[j].kind = "area"
        /\ Len(areasrc[j].rings) = 2
        /\ areasrc[j].rings[2].role = "inner"
        /\ areastream[j] = "20,water,1,5,9,7"

\* C6: the first field of the line of an area is the id of the way or the
\* relation of the input the area was assembled from
C6_OriginalId ==
    \A j \in DOMAIN areasrc :
        areasrc[j].kind = "area" =>
            \E i \in DOMAIN input, k \in {"natural", "landuse"} \cap DOMAIN areasrc[j].tags :
                /\ areasrc[j].id = (IF input[i].kind = "relation" THEN 2 * input[i].id + 1
                                    ELSE 2 * input[i].id)
                /\ areastream[j] = ToString(input[i].id) \o "," \o areasrc[j].tags[k]
                                   \o RingRefs(outer_rings(areasrc[j]))

\* C6 witness: an area of a way and an area of a relation have been written
C6_Witness ==
    /\ \E j \in DOMAIN areasrc : areasrc[j].kind = "area" /\ areasrc[j].id % 2 = 0
    /\ \E j \in DOMAIN areasrc : areasrc[j].kind = "area" /\ areasrc[j].id % 2 = 1

\* the run has ended on a rules-file line that does not parse
RulesLineFailed ==
    /\ pc = "exit"
    /\ linePos > 0
    /\ LineIsParsed(rulesFile.content[linePos])
    /\ ~ParseExpression(StripLine(rulesFile.content[linePos])).ok

\* C10: when a line of the rules file does not parse, the run ends with
\* neither output file on disk
C10_NoOutputFileAfterBadRule == RulesLineFailed => created = {}

----------------------------------------------------------------------------
(* Properties of RiversystemMap, checked under SpecLoad *)

\* the first line of a text: its characters before the first newline
FirstLineOf(content) ==
    LET n == CHOOSE k \in 0..Len(content) :
                 /\ \A j \in 1..k : content[j] # "\n"
                 /\ (k < Len(content) => content[k + 1] = "\n")
    IN  [j \in 1..n |-> content[j]]

NoEntries == m_names = {} /\ DOMAIN m_id2Name = {}

IsInteger(txt) == txt # <<>> /\ \A j \in DOMAIN txt : txt[j] \in DOMAIN Digits

\* a line "<id>,<name>": an integer, a comma, a name without whitespace
WellFormed(l) ==
    /\ IsInteger(l.idtxt)
    /\ l.sep = ","
    /\ l.nametxt # <<>>
    /\ \A j \in DOMAIN l.nametxt : l.nametxt[j] \notin Whitespace

AllWellFormed == \A i \in DOMAIN file.lines : WellFormed(file.lines[i])

RECURSIVE IdValueFrom(_, _)
IdValueFrom(txt, acc) ==
    IF txt = <<>> THEN acc ELSE IdValueFrom(Tail(txt), 10 * acc + Digits[Head(txt)])

\* the integer an id field denotes
IdValue(txt) == IdValueFrom(txt, 0)

\* the name of the first data line that carries the id, "" when none does
NameOfFirstLine(q) ==
    IF \E i \in DOMAIN file.lines : IdValue(file.lines[i].idtxt) = q
    THEN LET i == CHOOSE i \in DOMAIN file.lines :
                      /\ IdValue(file.lines[i].idtxt) = q
                      /\ \A j \in 1..(i - 1) : IdValue(file.lines[j].idtxt) # q
         IN  Join(file.lines[i].nametxt)
    ELSE ""

\* C7: load goes on past the header exactly when the file opens and its first
\* line is id,rsystem; in every other case it ends with an error and the map
\* has no entry
C7_HeaderRequired ==
    lpc # "start" =>
        IF file.readable /\ FirstLineOf(file.content) = Header
        THEN lpc # "error"
        ELSE lpc = "error" /\ NoEntries

\* C7 witness: load has failed on a header line with a trailing character
\* in front of data lines
C7_Witness ==
    /\ lpc = "error"
    /\ file.readable
    /\ Len(FirstLineOf(file.content)) = Len(Header) + 1
    /\ Len(file.content) > Len(Header) + 2

C9_BadIdIsFatal ==
    ( /\ idFailed
      /\ \E i \in DOMAIN file.lines :
           /\ ~IsInteger(file.lines[i].idtxt)
           /\ \A j \in 1..(i - 1) : WellFormed(file.lines[j]) )
    => lpc = "error"

----------------------------------------------------------------------------
(* Properties of osmium_waterway_ids in any environment, checked under SpecIO *)

\* an output stream whose open failed: the handler has been constructed and
\* the file was not created
SinkFailed(role) ==
    /\ \E i \in DOMAIN stderr : stderr[i] = "Pass 2..."
    /\ role \notin created

\* C11: a run in which the way file or the area file could not be opened
\* does not end with exit status 0
C11_SinkFailureIsFatal ==
    (SinkFailed("wayfile") \/ SinkFailed("areafile")) => exitCode # 0


----------------------------------------------------------------------------
(* Properties of the command lines of the three tools, checked under SpecTools *)

\* osmium_waterway_ids has looked at a command line with the wrong number of
\* arguments
CsvWrongArgCount ==
    /\ pc \notin {"idle", "start"}
    /\ \/ variant = "rules_file" /\ argc # 5
       \/ variant = "builtin" /\ argc # 4

\* osmium_rivermap has gone past its check of remaining_args, or has ended
\* before it, on a command line with more than two positional arguments
GisWrongArgCount ==
    /\ gpc \notin {"idle", "start", "check_args"}
    /\ remaining_args > 2

\* the run has ended with the usage text and status 1 and has touched no file
UsageExitOnly ==
    /\ exitCode = 1
    /\ stderr = <<"Usage">>
    /\ opened = <<>>
    /\ created = {}
    /\ linePos = 0
    /\ parsed = <<>>
    /\ lpc = "idle"
    /\ fpos = 0

\* C12 as stated: a run with the wrong number of positional arguments prints
\* the usage text to standard error and exits with status 1 before any input
\* is opened, any rules or join file is read, or any output file is created
C12_WrongArgCountIsUsageError ==
    /\ CsvWrongArgCount => pc = "exit" /\ UsageExitOnly
    /\ GisWrongArgCount => gpc = "exit" /\ UsageExitOnly

\* C12: a run with the wrong number of positional arguments prints the usage
\* text to standard error and exits with status 1 before any input is opened,
\* any rules or join file is read, or any output file is created; for
\* osmium_rivermap, when its option loop has not ended the run (-h, -L, an
\* unknown option)
C12_WrongArgCountAfterOptions ==
    /\ CsvWrongArgCount => pc = "exit" /\ UsageExitOnly
    /\ GisWrongArgCount /\ opt = "run" => gpc = "exit" /\ UsageExitOnly

\* C12 witness: osmium_rivermap has left with the usage text on a command
\* line with three positional arguments
C12_Witness ==
    /\ gpc = "exit"
    /\ opt = "run"
    /\ remaining_args = 3
    /\ stderr = <<"Usage">>
    /\ exitCode = 1


\* the entries of the log of opened files with a role
ArgsOpenedAs(role) == { opened[i].arg : i \in { j \in DOMAIN opened : opened[j].role = role } }

\* main is past its check of argc and has not left through it
ArgsAccepted == pc \notin {"idle", "start"} /\ stderr # <<"Usage">>

\* the filter is complete: main is at pass 1 or beyond
FilterComplete ==
    \/ pc \in {"pass1_start", "pass1", "pass2_start", "pass2", "done"}
    \/ variant = "builtin" /\ pc = "construct"

\* C13 as stated: the positional arguments after the input path are the
\* way-output path, the area-output path and an optional rules-file path; a
\* run given only input, way-output and area-output paths is accepted and
\* uses the built-in rules
C13_OptionalTrailingRulesFile ==
    pc \notin {"idle", "start"} =>
      /\ argc = 4 => ArgsAccepted
      /\ argc = 4 /\ FilterComplete /\ variant = "builtin" => m_filter = BuiltinFilter
      /\ ArgsOpenedAs("wayfile") \subseteq {2}
      /\ ArgsOpenedAs("areafile") \subseteq {3}
      /\ ArgsOpenedAs("rules") \subseteq {4}

\* C13: each variant has one fixed argument list. The variant with the
\* built-in rules accepts exactly input, way-output, area-output and uses the
\* built-in rules; the variant with the rules file accepts exactly input,
\* rules-file, way-output, area-output, and reads its rules from the second
\* argument
C13_FixedArgumentLists ==
    pc \notin {"idle", "start"} =>
      /\ ArgsOpenedAs("input") \subseteq {1}
      /\ variant = "builtin" =>
           /\ ArgsAccepted <=> argc = 4
           /\ FilterComplete => m_filter = BuiltinFilter
           /\ ArgsOpenedAs("wayfile") \subseteq {2}
           /\ ArgsOpenedAs("areafile") \subseteq {3}
           /\ ArgsOpenedAs("rules") = {}
           /\ pc = "done" => ArgsOpenedAs("wayfile") = {2} /\ ArgsOpenedAs("areafile") = {3}
      /\ variant = "rules_file" =>
           /\ ArgsAccepted <=> argc = 5
           /\ ArgsOpenedAs("wayfile") \subseteq {3}
           /\ ArgsOpenedAs("areafile") \subseteq {4}
           /\ ArgsOpenedAs("rules") \subseteq {2}
           /\ FilterComplete => ArgsOpenedAs("rules") = {2}
           /\ pc = "done" => ArgsOpenedAs("wayfile") = {3} /\ ArgsOpenedAs("areafile") = {4}

\* C13 witness: a run of the rules-file variant with four arguments has come
\* to its end with rules from the file
C13_Witness ==
    /\ variant = "rules_file"
    /\ argc = 5
    /\ pc = "done"
    /\ m_filter # <<>>
    /\ ArgsOpenedAs("rules") = {2}
    /\ ArgsOpenedAs("wayfile") = {3}
    /\ waystream # <<>>


----------------------------------------------------------------------------
(* Further properties of osmium_waterway_ids, checked under Spec *)

\* the record of a way or an area with the value of its tag k as type
RecordLine(o, k) ==
    IF o.kind = "way"
    THEN CsvLine(o.id, o.tags[k], o.nodes)
    ELSE CsvLine(orig_id(o), o.tags[k], OuterNodes(o.rings))

\* the line is a record of the object whose type is the value of a tag of
\* the object that an include rule matches
TypeFromAcceptedTag(line, o) ==
    \E k \in DOMAIN o.tags :
        /\ line = RecordLine(o, k)
        /\ IncludePairPresent(m_filter, k :> o.tags[k])

\* C14: the type field of every record written is the value of a tag that an
\* include rule matches
C14_TypeIsAnAcceptedTag ==
    /\ \A j \in DOMAIN waystream : \E w \in HandledWays : TypeFromAcceptedTag(waystream[j], w)
    /\ \A j \in DOMAIN areastream : TypeFromAcceptedTag(areastream[j], areasrc[j])


\* the key WaterHandler::area takes the type of an area from
AreaKey(tags) == IF "natural" \in DOMAIN tags THEN "natural" ELSE "landuse"

\* C15: the record of an assembled area has as type the value of the area's
\* natural tag when it has one and of its landuse tag otherwise, never the
\* value of its waterway tag; and no record of an area is in the way sink
C15_AreasByNaturalThenLanduse ==
    /\ \A j \in DOMAIN areasrc :
         areasrc[j].kind = "area" =>
           /\ AreaKey(areasrc[j].tags) \in DOMAIN areasrc[j].tags
           /\ areastream[j] = RecordLine(areasrc[j], AreaKey(areasrc[j].tags))
           /\ "waterway" \in DOMAIN areasrc[j].tags =>
                areastream[j] # RecordLine(areasrc[j], "waterway")
    /\ \A j \in DOMAIN waystream : \E w \in HandledWays : waystream[j] \in LinesOf(w)

\* C15 witness: the area of way 11, which carries waterway=riverbank and
\* natural=water, has been written with type water
C15_Witness ==
    \E j \in DOMAIN areasrc :
        /\ areasrc[j].kind = "area"
        /\ areasrc[j].tags = ("waterway" :> "riverbank") @@ ("natural" :> "water")
        /\ areastream[j] = "11,water,2,3,4,2"


\* the areas assembled in pass 2 after the first n objects of the input
AssembledUpTo(n) ==
    UNION { Range(AreasAfterWay(input, i, mp_relations, m_filter)) :
              i \in { j \in 1..n : input[j].kind = "way" } }

\* the areas pass 2 has handed to WaterHandler::area so far
DeliveredAreas ==
    IF pc \in {"pass2", "done"} THEN AssembledUpTo(pos) \ Range(area_buffer) ELSE {}

\* how many lines of the area sink were written for the area
AreaLines(a) == Cardinality({ j \in DOMAIN areasrc : areasrc[j] = a })

\* C16 as stated: every assembled area the filter accepts has exactly one
\* line in the area sink, an area accepted through a waterway rule alone
\* included
C16_EveryAcceptedAreaHasALine ==
    \A a \in DeliveredAreas : Accepted(a.tags) => AreaLines(a) = 1

\* C16: every assembled area the filter accepts that carries a natural or a
\* landuse tag has exactly one line in the area sink, a whole record; an
\* accepted area with neither tag has none
C16_AreasWithNaturalOrLanduse ==
    /\ Len(areastream) = Len(areasrc)
    /\ \A a \in DeliveredAreas :
         Accepted(a.tags) =>
           IF {"natural", "landuse"} \cap DOMAIN a.tags # {}
           THEN /\ AreaLines(a) = 1
                /\ \A j \in DOMAIN areasrc :
                     areasrc[j] = a => areastream[j] = RecordLine(a, AreaKey(a.tags))
           ELSE AreaLines(a) = 0

\* C16 witness: the run has ended; the area of the closed way tagged
\* waterway=dam was accepted and has no line, and another area has one line
C16_Witness ==
    /\ pc = "done"
    /\ \E a \in DeliveredAreas :
         /\ a.tags = ("waterway" :> "dam")
         /\ Accepted(a.tags)
         /\ AreaLines(a) = 0
    /\ \E a \in DeliveredAreas : AreaLines(a) = 1


\* the first n lines of the rules file, each without the text from its first
\* '#' and without a final '\r', those that are then empty left out
NonEmptyLines(n) ==
    SelectSeq([i \in 1..n |-> StripLine(rulesFile.content[i])], LAMBDA l : l # <<>>)

\* C17: the expressions handed to the parser are the lines read so far that
\* are not empty once the text from the first '#' and a final '\r' are gone,
\* one call and one rule for each; an empty line, a comment line and a line
\* that is a lone '\r' are not handed to it
C17_OneRulePerNonEmptyLine ==
    variant = "rules_file" =>
      /\ parsed = NonEmptyLines(linePos)
      /\ pc # "exit" => Len(m_filter) = Len(parsed)


\* C18: the rule added for a line is an exclude rule when the line starts
\* with '!' and an include rule when it does not
C18_PolarityFollowsPrefix ==
    variant = "rules_file" =>
      \A i \in DOMAIN m_filter : m_filter[i].result = (Head(parsed[i]) # "!")


----------------------------------------------------------------------------
(* Properties of the start-up of the tools, checked under SpecTools *)

\* the run has opened its OSM input or created an output file or dataset
InputOrOutputTouched ==
    \/ ArgsOpenedAs("input") # {}
    \/ created # {}

\* the rules file of osmium_waterway_ids has not been read to its end
RulesNotLoaded == variant = "rules_file" /\ ~FilterComplete

\* the river-system file that -r names has not been loaded
RsystemsNotLoaded == gpc # "idle" /\ rsystems_file /\ lpc # "done"

\* the same for osmium_rivermap alone
GisConfigBeforeInputAndOutput == RsystemsNotLoaded => ~InputOrOutputTouched

\* C19: as long as the configuration file (the rules file, the river-system
\* file) has not been loaded with success, the OSM input has not been opened
\* and no output file or dataset has been created
C19_ConfigBeforeInputAndOutput ==
    /\ RulesNotLoaded => ~InputOrOutputTouched
    /\ RsystemsNotLoaded => ~InputOrOutputTouched


----------------------------------------------------------------------------
(* The two passes of osmium_waterway_ids, checked under Spec *)

\* the relations of the input that the multipolygon manager keeps
KeptRelations ==
    { input[i].id : i \in { j \in DOMAIN input : input[j].kind = "relation"
                                                 /\ new_relation(input[j], m_filter) } }

\* pass 2 has started
Pass2Started == pc \in {"pass2", "done"}

\* C20: no way or area record is written, and no area is assembled, before
\* pass 2 starts; and when pass 2 starts pass 1 has consumed the whole input:
\* the manager has every relation of the input it keeps, and "Pass 1 done"
\* precedes "Pass 2..." on std::cerr
C20_PassesAreSequential ==
    /\ variant # "none" /\ ~Pass2Started =>
         /\ waystream = <<>>
         /\ areastream = <<>>
         /\ area_buffer = <<>>
    /\ Pass2Started =>
         /\ mp_relations = KeptRelations
         /\ \E i, j \in DOMAIN stderr :
              /\ i < j
              /\ stderr[i] = "Pass 1 done"
              /\ stderr[j] = "Pass 2..."

\* C20 witness: pass 2 is writing records, with a relation kept by pass 1
\* that stands after the ways in the input
C20_Witness ==
    /\ pc = "pass2"
    /\ mp_relations # {}
    /\ waystream # <<>>
    /\ input[1].kind = "way"
    /\ input[Len(input)].kind = "relation"


----------------------------------------------------------------------------
(* The order of the way sink, checked under Spec *)

\* the positions in the input of the ways a line of the way sink is a record of
WayPositionsOf(line) ==
    { i \in DOMAIN input : input[i].kind = "way" /\ line \in LinesOf(input[i]) }

\* C21: the lines of the way sink are in the order of their ways in the
\* input: of two lines, the earlier one is the record of the way that comes
\* earlier in the input
C21_WaySinkInInputOrder ==
    \A j1, j2 \in DOMAIN waystream :
        j1 < j2 =>
          /\ WayPositionsOf(waystream[j1]) # {}
          /\ WayPositionsOf(waystream[j2]) # {}
          /\ \A i1 \in WayPositionsOf(waystream[j1]), i2 \in WayPositionsOf(waystream[j2]) :
               i1 < i2

\* C21 witness: two waterways stand in the input with the greater id first,
\* and both have been written
C21_Witness ==
    /\ pc = "done"
    /\ Len(waystream) = 2
    /\ Len(input) >= 2
    /\ input[1].kind = "way"
    /\ input[2].kind = "way"
    /\ input[1].id > input[2].id
    /\ waystream[1] \in LinesOf(input[1])
    /\ waystream[2] \in LinesOf(input[2])


----------------------------------------------------------------------------
(* Properties of osmium_rivermap, checked under SpecGis *)

\* the diagnostic MyOGRHandler::way writes for a way
IgnoringMessage(w) == "Ignoring illegal geometry for way " \o ToString(w.id) \o "."

\* the way has been skipped with the diagnostic
Skipped(w) == \E i \in DOMAIN stderr : stderr[i] = IgnoringMessage(w)

\* the feature of a waterway: id, name when the way has one, type, rsystem
FeatureOf(w) ==
    Feature(w.id,
            IF "name" \in DOMAIN w.tags THEN w.tags["name"] ELSE FieldUnset,
            w.tags["waterway"],
            IF w.id \in DOMAIN m_id2Name THEN m_id2Name[w.id] ELSE "")

\* the ways among the first n objects of the input that carry a waterway tag
\* and were not skipped, in input order
WaterwaysKept(n) ==
    SelectSeq(SubSeq(input, 1, n),
              LAMBDA o : o.kind = "way" /\ "waterway" \in DOMAIN o.tags /\ ~Skipped(o))

\* osmium::apply has handed at least one object to the handler
ApplyStarted == gpc # "idle" /\ pos > 0

\* the layer holds the features of the waterways handled and not skipped
FeaturesOfKeptWays ==
    /\ Len(features) = Len(WaterwaysKept(pos))
    /\ \A i \in DOMAIN features : features[i] = FeatureOf(WaterwaysKept(pos)[i])

\* C22: a way whose geometry cannot be built is skipped with a diagnostic and
\* the run goes on: the layer holds exactly the features of the other
\* waterways handled so far, each with id, type and rsystem, and the run does
\* not end with status 1
C22_BadGeometryIsSkipped ==
    ApplyStarted =>
      /\ FeaturesOfKeptWays
      /\ exitCode # 1
      /\ gpc \in {"apply", "done"}


----------------------------------------------------------------------------
(* Further properties of RiversystemMap, checked under SpecLoad *)

\* the ids of the data lines of the file
IdsOfLines == { IdValue(file.lines[i].idtxt) : i \in DOMAIN file.lines }

\* C23: after the load of a well-formed file, with or without a final
\* newline, the map has one entry for each id of a data line and no other;
\* an id of several lines has the name of the first of them; the iteration
\* that meets the end of the file adds no entry
C23_OneEntryPerId ==
    lpc = "done" /\ AllWellFormed =>
      /\ DOMAIN m_id2Name = IdsOfLines
      /\ \A i \in DOMAIN m_id2Name : m_id2Name[i] = NameOfFirstLine(i)


----------------------------------------------------------------------------
(* The lines of the area sink per object, checked under Spec *)

\* the lines of the area sink written for an object of the input: by the way
\* callback for the way itself, by the area callback for the area assembled
\* from the way or the relation
AreaSinkLinesOf(o) ==
    { j \in DOMAIN areasrc :
        \/ areasrc[j] = o
        \/ /\ areasrc[j].kind = "area"
           /\ areasrc[j].id = object_id_to_area_id(o.id, o.kind) }

\* C24: no object of the input has more than one line in the area sink
C24_OneAreaSinkLinePerObject ==
    \A i \in DOMAIN input : Cardinality(AreaSinkLinesOf(input[i])) <= 1


----------------------------------------------------------------------------
(* The interning of names, checked under SpecLoad *)

\* the names of the data lines of the file
NamesOfLines == { Join(file.lines[i].nametxt) : i \in DOMAIN file.lines }

\* every name the map returns is one of the strings stored in m_names; the
\* pointer kept for an id is the address of that element, so that equal names
\* are one instance
StoredNamesAreShared ==
    /\ \A i \in DOMAIN m_id2Name : m_id2Name[i] \in m_names
    /\ \A i, j \in DOMAIN file.lines :
         file.lines[i].nametxt = file.lines[j].nametxt =>
           LET a == getName(m_id2Name, IdValue(file.lines[i].idtxt))
               b == getName(m_id2Name, IdValue(file.lines[j].idtxt))
           IN  NameOfFirstLine(IdValue(file.lines[i].idtxt)) = Join(file.lines[i].nametxt)
               /\ NameOfFirstLine(IdValue(file.lines[j].idtxt)) = Join(file.lines[j].nametxt)
               => a = b /\ a \in m_names

\* C25: after any load the ids whose lines carry the same name return the
\* same stored string, and there are as many stored strings as the file has
\* distinct names
C25_NamesAreInterned ==
    lpc = "done" =>
      /\ StoredNamesAreShared
      /\ Cardinality(m_names) = Cardinality(NamesOfLines)

====
